---- MODULE Spec2Model ----
(***************************************************************************)
(* Model of randomizer5.py: three atomsk invocations, then parsing of      *)
(* poly.cfg, coordinate normalisation, random species assignment and the   *)
(* LAMMPS data file writer.                                                *)
(*                                                                         *)
(* Text is modelled at character level: a line is a sequence of one-       *)
(* character strings (without its newline), so that strip(), split(), the  *)
(* substring test for the marker and float() are computed, not assumed.    *)
(* Floating point values are held in fixed point, in units of 1/Unit.      *)
(***************************************************************************)
EXTENDS Integers, Sequences, FiniteSets, TLC

VARIABLES pc, ret, os_system_log, opened, exit_msg,
          lines, header_part, atom_part, atoms, n_atoms,
          fe_indices, output

vars == <<pc, ret, os_system_log, opened, exit_msg,
          lines, header_part, atom_part, atoms, n_atoms,
          fe_indices, output>>

(***************************************************************************)
(* Bounds of the model.                                                    *)
(***************************************************************************)
MaxLines == 4
MaxAtoms == 7

(***************************************************************************)
(* Fixed point: a float v is held as the integer v * Unit.                 *)
(***************************************************************************)
Unit == 10

Min(a, b) == IF a < b THEN a ELSE b
Max(a, b) == IF a > b THEN a ELSE b

(***************************************************************************)
(* Characters and str operations.                                          *)
(***************************************************************************)
Whitespace == {" "}
Digits == {"0", "1", "2", "5"}
DigitVal(c) == CASE c = "0" -> 0 [] c = "1" -> 1 [] c = "2" -> 2 [] c = "5" -> 5

\* str.strip(): drop leading and trailing whitespace
RECURSIVE lstrip(_)
lstrip(s) == IF s # <<>> /\ Head(s) \in Whitespace THEN lstrip(Tail(s)) ELSE s

RECURSIVE rstrip(_)
rstrip(s) ==
    IF s # <<>> /\ s[Len(s)] \in Whitespace
    THEN rstrip(SubSeq(s, 1, Len(s) - 1)) ELSE s

strip(s) == rstrip(lstrip(s))

\* str.split(): the maximal runs of non-whitespace characters, in order
RECURSIVE splitFrom(_, _, _)
splitFrom(s, cur, acc) ==
    IF s = <<>>
    THEN IF cur = <<>> THEN acc ELSE Append(acc, cur)
    ELSE IF Head(s) \in Whitespace
         THEN splitFrom(Tail(s), <<>>, IF cur = <<>> THEN acc ELSE Append(acc, cur))
         ELSE splitFrom(Tail(s), Append(cur, Head(s)), acc)

split(s) == splitFrom(s, <<>>, <<>>)

\* sub in s
Contains(s, sub) ==
    \E i \in 1..(Len(s) - Len(sub) + 1) : SubSeq(s, i, i + Len(sub) - 1) = sub

Marker == <<"F", "e">>

(***************************************************************************)
(* float(): decimal literals  [-] digits [ . digits ]  with at least one   *)
(* digit; any other token raises ValueError.                               *)
(***************************************************************************)
AllDigits(s) == \A i \in 1..Len(s) : s[i] \in Digits

Unsigned(tok) == IF tok # <<>> /\ Head(tok) = "-" THEN Tail(tok) ELSE tok

DotPos(s) == IF \E i \in 1..Len(s) : s[i] = "."
             THEN CHOOSE i \in 1..Len(s) : s[i] = "." /\ \A j \in 1..(i - 1) : s[j] # "."
             ELSE 0

IntPart(s) == IF DotPos(s) = 0 THEN s ELSE SubSeq(s, 1, DotPos(s) - 1)
FracPart(s) == IF DotPos(s) = 0 THEN <<>> ELSE SubSeq(s, DotPos(s) + 1, Len(s))

IsFloat(tok) ==
    LET u == Unsigned(tok) IN
       /\ AllDigits(IntPart(u))
       /\ AllDigits(FracPart(u))
       /\ Len(IntPart(u)) + Len(FracPart(u)) > 0

RECURSIVE IntVal(_)
IntVal(s) == IF s = <<>> THEN 0
             ELSE 10 * IntVal(SubSeq(s, 1, Len(s) - 1)) + DigitVal(s[Len(s)])

RECURSIVE Pow10(_)
Pow10(k) == IF k = 0 THEN 1 ELSE 10 * Pow10(k - 1)

\* value in units of 1/Unit; exact for literals with at most one fractional digit
float(tok) ==
    LET u == Unsigned(tok)
        mag == IntVal(IntPart(u)) * Unit
               + (IntVal(FracPart(u)) * Unit) \div Pow10(Len(FracPart(u)))
    IN IF tok # <<>> /\ Head(tok) = "-" THEN 0 - mag ELSE mag


(***************************************************************************)
(* Contents poly.cfg may have when it is read: up to MaxLines lines drawn  *)
(* from LineSet.                                                            *)
(***************************************************************************)
LBlank      == <<" ">>
LMarker     == <<"F", "e">>
LMarkerAtom == <<"0", " ", "0", " ", "0", " ", "g", "F", "e">>
LBad        == <<"0", " ", "x", " ", "0", " ", "g">>
LB          == <<" ", "0", ".", "5", " ", " ", "2", " ", "0", " ", "g">>
LD          == <<"1", ".", "5", " ", "-", "0", ".", "5", " ", "-", ".", "5", " ", "g", " ", "x", " ">>

LineSet == {LBlank, LMarker, LMarkerAtom, LBad, LB, LD}

RECURSIVE SeqsUpTo(_, _)
SeqsUpTo(S, n) ==
    IF n = 0 THEN {<<>>}
    ELSE LET shorter == SeqsUpTo(S, n - 1)
         IN shorter \cup {Append(s, e) : s \in {t \in shorter : Len(t) = n - 1}, e \in S}

InputFiles == SeqsUpTo(LineSet, MaxLines)

RetValues == {0, 256, 32512}

(***************************************************************************)
(* ATOMSK PART                                                             *)
(***************************************************************************)
\* variant: only a negative status counts as a failure
FailedNegative(r) == r < 0

\* if ret != 0: sys.exit(...)
Failed(r) == r # 0

NoMsg == [text |-> "", step |-> 0]
StepMsg(k) == [text |-> "[ERROR] Atomsk command failed at step", step |-> k]
NoAtomsMsg == [text |-> "[ERROR] No atoms parsed. Exiting.", step |-> 0]

AtomskStep(k, here, next) ==
    /\ pc = here
    /\ \E r \in RetValues :
          /\ ret' = r
          /\ os_system_log' = Append(os_system_log, [step |-> k, ret |-> r])
          /\ IF Failed(r)
             THEN pc' = "exit" /\ exit_msg' = StepMsg(k)
             ELSE pc' = next /\ exit_msg' = exit_msg
    /\ UNCHANGED <<opened, lines, header_part, atom_part, atoms, n_atoms,
                   fe_indices, output>>

Step1 == AtomskStep(1, "step1", "step2")
Step2 == AtomskStep(2, "step2", "step3")
Step3 == AtomskStep(3, "step3", "read")

(***************************************************************************)
(* PYTHON PART: read poly.cfg                                              *)
(***************************************************************************)
input_file  == "poly.cfg"
output_file == "final_lammps.data"

ReadInput ==
    /\ pc = "read"
    /\ \E ls \in InputFiles : lines' = ls
    /\ opened' = Append(opened, [file |-> input_file, mode |-> "r"])
    /\ pc' = "split"
    /\ UNCHANGED <<ret, os_system_log, exit_msg, header_part, atom_part,
                   atoms, n_atoms, fe_indices, output>>

(***************************************************************************)
(* Header / atom body split on the first line containing "Fe"              *)
(***************************************************************************)
\* variant: the marker line opens the atom body instead of closing the header
RECURSIVE SplitLoopMarkerInBody(_, _, _, _)
SplitLoopMarkerInBody(ls, found_fe_line, hdr, body) ==
    IF ls = <<>> THEN [header_part |-> hdr, atom_part |-> body]
    ELSE IF ~found_fe_line /\ ~Contains(strip(Head(ls)), Marker)
         THEN SplitLoopMarkerInBody(Tail(ls), FALSE, Append(hdr, Head(ls)), body)
         ELSE SplitLoopMarkerInBody(Tail(ls), TRUE, hdr, Append(body, Head(ls)))

RECURSIVE SplitLoop(_, _, _, _)
SplitLoop(ls, found_fe_line, hdr, body) ==
    IF ls = <<>> THEN [header_part |-> hdr, atom_part |-> body]
    ELSE IF ~found_fe_line
         THEN SplitLoop(Tail(ls), Contains(strip(Head(ls)), Marker),
                        Append(hdr, Head(ls)), body)
         ELSE SplitLoop(Tail(ls), found_fe_line, hdr, Append(body, Head(ls)))

SplitHeader ==
    /\ pc = "split"
    /\ LET r == SplitLoop(lines, FALSE, <<>>, <<>>)
       IN /\ header_part' = r.header_part
          /\ atom_part' = r.atom_part
    /\ pc' = "parse"
    /\ UNCHANGED <<ret, os_system_log, opened, exit_msg, lines, atoms, n_atoms,
                   fe_indices, output>>

(***************************************************************************)
(* Atom line parsing loop and the empty check                              *)
(***************************************************************************)
MinFields == 4

\* the three `continue` branches of the loop body
Skipped(line) ==
    LET stripped == strip(line)
        parts == split(stripped)
    IN \/ stripped = <<>>
       \/ Len(parts) < MinFields
       \/ ~(IsFloat(parts[1]) /\ IsFloat(parts[2]) /\ IsFloat(parts[3]))

AtomOf(line) ==
    LET parts == split(strip(line))
    IN [x |-> float(parts[1]), y |-> float(parts[2]), z |-> float(parts[3]),
        grain |-> parts[4], type |-> 0]

RECURSIVE ParseLoop(_, _)
ParseLoop(body, acc) ==
    IF body = <<>> THEN acc
    ELSE IF Skipped(Head(body))
         THEN ParseLoop(Tail(body), acc)
         ELSE ParseLoop(Tail(body), Append(acc, AtomOf(Head(body))))

\* variant: the empty check never fires
NoAtomsNever(n) == n < 0

\* if n_atoms == 0: sys.exit(...)
NoAtoms(n) == n = 0

ParseAtoms ==
    /\ pc = "parse"
    /\ LET parsed == ParseLoop(atom_part, <<>>)
       IN /\ atoms' = parsed
          /\ n_atoms' = Len(parsed)
          /\ IF NoAtoms(Len(parsed))
             THEN pc' = "exit" /\ exit_msg' = NoAtomsMsg
             ELSE pc' = "normalize" /\ exit_msg' = exit_msg
    /\ UNCHANGED <<ret, os_system_log, opened, lines, header_part, atom_part,
                   fe_indices, output>>

(***************************************************************************)
(* Coordinate range check and scaling                                      *)
(***************************************************************************)
SetMax(S) == CHOOSE m \in S : \A v \in S : v <= m
SetMin(S) == CHOOSE m \in S : \A v \in S : m <= v

x_range(as) == LET xs == {as[i].x : i \in 1..Len(as)} IN SetMax(xs) - SetMin(xs)
y_range(as) == LET ys == {as[i].y : i \in 1..Len(as)} IN SetMax(ys) - SetMin(ys)
z_range(as) == LET zs == {as[i].z : i \in 1..Len(as)} IN SetMax(zs) - SetMin(zs)

RangeThreshold == 2
scale_factor == 198

\* variant: a range of exactly 2 still counts as fractional
FractionalInclusive(xr, yr, zr) ==
    /\ xr <= RangeThreshold * Unit
    /\ yr <= RangeThreshold * Unit
    /\ zr <= RangeThreshold * Unit

\* if x_range < 2 and y_range < 2 and z_range < 2
Fractional(xr, yr, zr) ==
    /\ xr < RangeThreshold * Unit
    /\ yr < RangeThreshold * Unit
    /\ zr < RangeThreshold * Unit

Scaled(a) == [a EXCEPT !.x = @ * scale_factor,
                       !.y = @ * scale_factor,
                       !.z = @ * scale_factor]

Normalize ==
    /\ pc = "normalize"
    /\ atoms' = IF Fractional(x_range(atoms), y_range(atoms), z_range(atoms))
                THEN [i \in 1..Len(atoms) |-> Scaled(atoms[i])]
                ELSE atoms
    /\ pc' = "assign"
    /\ UNCHANGED <<ret, os_system_log, opened, exit_msg, lines, header_part,
                   atom_part, n_atoms, fe_indices, output>>


(***************************************************************************)
(* Random species assignment                                               *)
(***************************************************************************)
\* variants: int(0.2 * n), and 0.2 * n rounded up
round02Floor(n) == (2 * n) \div 10
round02Ceil(n) == (2 * n + 9) \div 10

\* int(round(0.2 * n)): 0.2 * n held in tenths, rounded half to even
round02(n) ==
    LET tenths == 2 * n
        q == tenths \div 10
        r == tenths % 10
    IN IF r < 5 THEN q
       ELSE IF r > 5 THEN q + 1
       ELSE IF q % 2 = 0 THEN q ELSE q + 1

\* s[i:j] for 0 <= i, 0 <= j: both ends are clipped to len(s)
Slice(s, i, j) == SubSeq(s, Min(i, Len(s)) + 1, Min(j, Len(s)))

\* variant: s[i+1:]
SliceFromSkipsOne(s, i) == SubSeq(s, Min(i, Len(s)) + 2, Len(s))

\* s[i:] for 0 <= i
SliceFrom(s, i) == SubSeq(s, Min(i, Len(s)) + 1, Len(s))

\* for idx in idxs: atoms[idx]['type'] = t
RECURSIVE Stamp(_, _, _)
Stamp(as, idxs, t) ==
    IF idxs = <<>> THEN as
    ELSE Stamp([as EXCEPT ![Head(idxs) + 1].type = t], Tail(idxs), t)

\* the orders random.shuffle can leave list(range(n)) in
Shuffles(n) ==
    {[k \in 1..n |-> p[k] - 1] : p \in Permutations(1..n)}

StampAll(as, fe) ==
    LET n  == Len(as)
        n1 == round02(n)
        n2 == round02(n)
        n3 == round02(n)
        n4 == round02(n)
        i0 == 0
        i1 == n1
        i2 == i1 + n2
        i3 == i2 + n3
        i4 == i3 + n4
        V_indices  == Slice(fe, i0, i1)
        Nb_indices == Slice(fe, i1, i2)
        Ta_indices == Slice(fe, i2, i3)
        Ti_indices == Slice(fe, i3, i4)
        Zr_indices == SliceFrom(fe, i4)
    IN Stamp(Stamp(Stamp(Stamp(Stamp(as, V_indices, 1), Nb_indices, 2),
                         Ta_indices, 3), Ti_indices, 4), Zr_indices, 5)

AssignSpecies ==
    /\ pc = "assign"
    /\ \E fe \in Shuffles(n_atoms) :
          /\ fe_indices' = fe
          /\ atoms' = StampAll(atoms, fe)
    /\ pc' = "write"
    /\ UNCHANGED <<ret, os_system_log, opened, exit_msg, lines, header_part,
                   atom_part, n_atoms, output>>

(***************************************************************************)
(* Data file writer.  A written line is a record; numbers printed with     *)
(* :.6f are held as the integer number of 1e-6 units printed.              *)
(***************************************************************************)
Micro == 1000000

\* f"{v:.6f}": Unit divides 10^6, so six decimals print v exactly
Fmt6(v) == v * (Micro \div Unit)

xlo == 0
xhi == 198
ylo == 0
yhi == 198
zlo == 0
zhi == 198

\* masses in units of 1e-5 amu
mass_dict == <<5094150, 9290638, 18094788, 4786700, 9122400>>

Blank == [kind |-> "blank"]

BoxLine(lo, hi, axis) ==
    [kind |-> "box", lo |-> Fmt6(lo * Unit), hi |-> Fmt6(hi * Unit), axis |-> axis]

\* f"{i} {atom['type']} {atom['x']:.6f} {atom['y']:.6f} {atom['z']:.6f}\n"
AtomLine(i, atom) ==
    [kind |-> "atom", id |-> i, type |-> atom.type,
     x |-> Fmt6(atom.x), y |-> Fmt6(atom.y), z |-> Fmt6(atom.z)]

\* variants: the last atom is not written; the atoms are written last to first
AtomLinesDropLast(as) == [i \in 1..(Len(as) - 1) |-> AtomLine(i, as[i])]
AtomLinesReversed(as) == [i \in 1..Len(as) |-> AtomLine(i, as[Len(as) + 1 - i])]

\* for i, atom in enumerate(atoms, start=1)
AtomLines(as) == [i \in 1..Len(as) |-> AtomLine(i, as[i])]

\* f"{n_atoms} atoms\n"
CountLine(n) == [kind |-> "count", n |-> n]

FileText(as, n) ==
    <<[kind |-> "title"], Blank,
      CountLine(n),
      [kind |-> "types", n |-> 5], Blank,
      BoxLine(xlo, xhi, "x"), BoxLine(ylo, yhi, "y"), BoxLine(zlo, zhi, "z"), Blank,
      [kind |-> "section", name |-> "Masses"], Blank>>
    \o [t \in 1..5 |-> [kind |-> "mass", type |-> t, mass |-> mass_dict[t]]]
    \o <<Blank, [kind |-> "section", name |-> "Atoms"], Blank>>
    \o AtomLines(as)

WriteData ==
    /\ pc = "write"
    /\ opened' = Append(opened, [file |-> output_file, mode |-> "w"])
    /\ output' = FileText(atoms, n_atoms)
    /\ pc' = "done"
    /\ UNCHANGED <<ret, os_system_log, exit_msg, lines, header_part, atom_part,
                   atoms, n_atoms, fe_indices>>

(***************************************************************************)
(* The script, top to bottom                                               *)
(***************************************************************************)
Init ==
    /\ pc = "step1"
    /\ ret = 0
    /\ os_system_log = <<>>
    /\ opened = <<>>
    /\ exit_msg = NoMsg
    /\ lines = <<>>
    /\ header_part = <<>>
    /\ atom_part = <<>>
    /\ atoms = <<>>
    /\ n_atoms = 0
    /\ fe_indices = <<>>
    /\ output = <<>>

Next ==
    \/ Step1
    \/ Step2
    \/ Step3
    \/ ReadInput
    \/ SplitHeader
    \/ ParseAtoms
    \/ Normalize
    \/ AssignSpecies
    \/ WriteData

Spec == Init /\ [][Next]_vars


(***************************************************************************)
(* The species assigner and the writer on larger populations: the run has  *)
(* read a file made of the marker line and n atom lines, n in 1..MaxAtoms, *)
(* and stands before the shuffle.                                          *)
(***************************************************************************)
PopulationFile(n) == <<LMarker>> \o [i \in 1..n |-> LD]

InitAssign ==
    \E n \in 1..MaxAtoms :
       LET r == SplitLoop(PopulationFile(n), FALSE, <<>>, <<>>)
           parsed == ParseLoop(r.atom_part, <<>>)
       IN /\ pc = "assign"
          /\ ret = 0
          /\ os_system_log = [k \in 1..3 |-> [step |-> k, ret |-> 0]]
          /\ opened = <<[file |-> input_file, mode |-> "r"]>>
          /\ exit_msg = NoMsg
          /\ lines = PopulationFile(n)
          /\ header_part = r.header_part
          /\ atom_part = r.atom_part
          /\ atoms = [i \in 1..Len(parsed) |-> Scaled(parsed[i])]
          /\ n_atoms = Len(parsed)
          /\ fe_indices = <<>>
          /\ output = <<>>

NextAssign ==
    \/ AssignSpecies
    \/ WriteData

SpecAssign == InitAssign /\ [][NextAssign]_vars

(***************************************************************************)
(* Vocabulary of the properties                                            *)
(***************************************************************************)
Abs(v) == IF v < 0 THEN 0 - v ELSE v

Assigned == pc \in {"write", "done"}

\* number of atoms carrying species t
Count(t) == Cardinality({i \in 1..Len(atoms) : atoms[i].type = t})

\* the integer nearest to n/5 (n/5 is never half way between two integers)
Nearest5(n) == CHOOSE r \in 0..n : 5 * r - n <= 2 /\ n - 5 * r <= 2

\* the records the parser produced, before normalisation
Parsed == ParseLoop(atom_part, <<>>)

\* the written lines of one kind, in file order
OutLines(kind) == SelectSeq(output, LAMBDA l : l.kind = kind)

(***************************************************************************)
(* C1: after species assignment every atom has exactly one species type in *)
(* 1..5 (none keeps type 0, each index is stamped exactly once because it  *)
(* occurs exactly once in the permutation), and the five per-species       *)
(* counts sum to N.                                                        *)
(***************************************************************************)
C1_EveryAtomOneSpecies ==
    Assigned =>
       /\ Len(atoms) = n_atoms
       /\ \A i \in 1..n_atoms : atoms[i].type \in 1..5
       /\ \A i \in 1..n_atoms :
             Cardinality({k \in 1..Len(fe_indices) : fe_indices[k] = i - 1}) = 1
       /\ Count(1) + Count(2) + Count(3) + Count(4) + Count(5) = n_atoms

C1_Witness ==
    /\ pc = "write"
    /\ n_atoms = 7
    /\ Count(1) = 1 /\ Count(5) = 3
    /\ fe_indices # [k \in 1..7 |-> k - 1]


(***************************************************************************)
(* C2: when the writer has run on N parsed atoms, the atom-count line      *)
(* states N and the Atoms section holds exactly N atom lines; between the  *)
(* parser and the writer the record sequence keeps its length N.           *)
(***************************************************************************)
C2_CountPreserved ==
    /\ pc \in {"normalize", "assign", "write", "done"} =>
          LET p == Parsed IN Len(atoms) = Len(p) /\ n_atoms = Len(p)
    /\ pc = "done" =>
          /\ OutLines("count") = <<[kind |-> "count", n |-> Len(Parsed)]>>
          /\ Len(OutLines("atom")) = Len(Parsed)
          /\ \E s \in 1..Len(output) :
                /\ output[s] = [kind |-> "section", name |-> "Atoms"]
                /\ \A k \in 1..Len(output) : output[k].kind = "atom" => k > s

C2_Witness ==
    /\ pc = "done"
    /\ Len(atom_part) = 3
    /\ n_atoms = 2
    /\ OutLines("count")[1].n = 2

(***************************************************************************)
(* C3: the normalizer multiplies every coordinate of every atom by 198,    *)
(* once, exactly when each axis range over the parsed atoms is strictly    *)
(* below 2; with any range at or above 2 (2.0 included) every coordinate   *)
(* is left as parsed.                                                      *)
(***************************************************************************)
RangesBelow2(p) ==
    \A i, j \in 1..Len(p) :
       /\ p[i].x - p[j].x < 2 * Unit
       /\ p[i].y - p[j].y < 2 * Unit
       /\ p[i].z - p[j].z < 2 * Unit

C3_ScaleIffFractional ==
    pc \in {"assign", "write", "done"} =>
       LET p == Parsed
           below == RangesBelow2(p)
       IN \A k \in 1..Len(p) :
             IF below
             THEN /\ atoms[k].x = 198 * p[k].x
                  /\ atoms[k].y = 198 * p[k].y
                  /\ atoms[k].z = 198 * p[k].z
             ELSE /\ atoms[k].x = p[k].x
                  /\ atoms[k].y = p[k].y
                  /\ atoms[k].z = p[k].z

C3_Witness ==
    /\ pc = "assign"
    /\ n_atoms = 2
    /\ Parsed[1].x = 15 /\ Parsed[2].x = 0
    /\ atoms[1].x = 2970 /\ atoms[2].x = 0
    /\ atoms[1].y = 0 - 990 /\ atoms[1].z = 0 - 990

(***************************************************************************)
(* C4: the k-th atom line written has id k and the (possibly normalized)   *)
(* coordinates of the k-th valid record of the input, for every k in       *)
(* 1..N; the shuffle and the normalizer leave the record order alone.      *)
(***************************************************************************)
\* positions in atom_part of the lines that are atom records
ValidPositions ==
    {i \in 1..Len(atom_part) :
        LET parts == split(atom_part[i])
        IN Len(parts) >= 4 /\ IsFloat(parts[1]) /\ IsFloat(parts[2]) /\ IsFloat(parts[3])}

\* position in V of the k-th smallest member of V
Kth(V, k) == CHOOSE i \in V : Cardinality({j \in V : j <= i}) = k

C4_StableOrder ==
    LET V == ValidPositions
        al == OutLines("atom")
    IN /\ pc \in {"assign", "write", "done"} =>
             \A k \in 1..Len(atoms) : atoms[k].grain = split(atom_part[Kth(V, k)])[4]
       /\ pc = "done" =>
             /\ Len(al) = Cardinality(V)
             /\ \E f \in {1, 198} :
                   \A k \in 1..Len(al) :
                      LET parts == split(atom_part[Kth(V, k)])
                      IN /\ al[k].id = k
                         /\ al[k].x = f * float(parts[1]) * (1000000 \div Unit)
                         /\ al[k].y = f * float(parts[2]) * (1000000 \div Unit)
                         /\ al[k].z = f * float(parts[3]) * (1000000 \div Unit)

C4_Witness ==
    /\ pc = "done"
    /\ n_atoms = 3
    /\ fe_indices = <<2, 0, 1>>
    /\ OutLines("atom")[1].x # OutLines("atom")[2].x
    /\ OutLines("atom")[2].x # OutLines("atom")[3].x
    /\ OutLines("atom")[3].id = 3

(***************************************************************************)
(* C5: the parser yields, in file order, one record for each line after    *)
(* the first line containing "Fe" that has at least 4 fields of which the  *)
(* first three are numbers.  The marker line and the lines before it are   *)
(* header; a later marker line is a body line; blank, short and            *)
(* non-numeric body lines are skipped and the parse goes on.               *)
(***************************************************************************)
\* index in lines of the first line containing the marker, Len(lines) when none does
FirstMarker ==
    IF \E i \in 1..Len(lines) : Contains(lines[i], Marker)
    THEN CHOOSE i \in 1..Len(lines) :
            /\ Contains(lines[i], Marker)
            /\ \A j \in 1..(i - 1) : ~Contains(lines[j], Marker)
    ELSE Len(lines)

RecordLines ==
    {i \in (FirstMarker + 1)..Len(lines) :
        LET parts == split(lines[i])
        IN Len(parts) >= 4 /\ IsFloat(parts[1]) /\ IsFloat(parts[2]) /\ IsFloat(parts[3])}

ParserDone == pc = "normalize" \/ (pc = "exit" /\ exit_msg = NoAtomsMsg)

C5_ParserYieldsValidRecords ==
    ParserDone =>
       /\ header_part = SubSeq(lines, 1, FirstMarker)
       /\ atom_part = SubSeq(lines, FirstMarker + 1, Len(lines))
       /\ Len(atoms) = Cardinality(RecordLines)
       /\ \A i \in RecordLines :
             LET k == Cardinality({j \in RecordLines : j <= i})
                 parts == split(lines[i])
             IN atoms[k] = [x |-> float(parts[1]), y |-> float(parts[2]),
                            z |-> float(parts[3]), grain |-> parts[4], type |-> 0]

C5_Witness ==
    /\ pc = "normalize"
    /\ lines = <<LBlank, LMarkerAtom, LBad, LMarkerAtom>>
    /\ Len(header_part) = 2
    /\ n_atoms = 1
    /\ atoms[1].grain = <<"g", "F", "e">>

(***************************************************************************)
(* C6: when the parser yields no atom record (also when no line holds the  *)
(* marker and every line is header) the run ends with the no-atoms message *)
(* before normalisation, assignment and writing; the output file is never  *)
(* opened.                                                                 *)
(***************************************************************************)
ParserRan ==
    \/ pc \in {"normalize", "assign", "write", "done"}
    \/ (pc = "exit" /\ opened # <<>>)

C6_NoAtomsNoOutput ==
    (ParserRan /\ n_atoms = 0) =>
       /\ pc = "exit"
       /\ exit_msg = NoAtomsMsg
       /\ output = <<>>
       /\ \A k \in 1..Len(opened) : opened[k].file # output_file

C6_Witness ==
    /\ pc = "exit"
    /\ exit_msg = NoAtomsMsg
    /\ Len(lines) = 3
    /\ header_part = lines
    /\ opened = <<[file |-> input_file, mode |-> "r"]>>

(***************************************************************************)
(* C7: the atomsk invocations run in the order 1, 2, 3, each only after    *)
(* the one before returned zero; a nonzero return of invocation k ends the *)
(* run at once with the message of step k: nothing is invoked after it,    *)
(* poly.cfg is not read, no output is written.  Parsing starts only after  *)
(* three zero returns.                                                     *)
(***************************************************************************)
C7_InvocationOrder ==
    LET n == Len(os_system_log) IN
       /\ n <= 3
       /\ \A k \in 1..n : os_system_log[k].step = k
       /\ \A k \in 1..(n - 1) : os_system_log[k].ret = 0
       /\ (n > 0 /\ os_system_log[n].ret # 0) =>
             /\ pc = "exit"
             /\ exit_msg = StepMsg(n)
             /\ opened = <<>>
             /\ lines = <<>>
             /\ output = <<>>
       /\ (opened # <<>> \/ pc \in {"read", "split", "parse"}) =>
             n = 3 /\ \A k \in 1..3 : os_system_log[k].ret = 0

C7_Witness ==
    /\ pc = "exit"
    /\ Len(os_system_log) = 2
    /\ os_system_log[2].ret = 256
    /\ exit_msg = StepMsg(2)

(***************************************************************************)
(* C9 as claimed: for every N > 0 each of species 1..4 receives exactly    *)
(* round(0.2 N) atoms and species 5 exactly N - 4 round(0.2 N).            *)
(***************************************************************************)
C9_Original ==
    Assigned =>
       /\ \A t \in 1..4 : Count(t) = Nearest5(n_atoms)
       /\ Count(5) = n_atoms - 4 * Nearest5(n_atoms)

(***************************************************************************)
(* C9 amended: with r = round(0.2 N), positions (t-1) r .. t r - 1 of the  *)
(* permutation, cut off at N, receive species t for t = 1..4 and all later *)
(* positions species 5.  So species 1..4 receive r atoms each and species  *)
(* 5 receives N - 4 r whenever 4 r <= N; when 4 r > N (N = 3) the slices   *)
(* run out: species t receives min(r, max(0, N - (t-1) r)) and species 5   *)
(* none.                                                                   *)
(***************************************************************************)
C9_SliceQuotas ==
    Assigned =>
       LET r == Nearest5(n_atoms) IN
          /\ \A k \in 1..n_atoms :
                atoms[fe_indices[k] + 1].type =
                   IF r = 0 \/ k > 4 * r THEN 5 ELSE ((k - 1) \div r) + 1
          /\ \A t \in 1..4 : Count(t) = Min(r, Max(0, n_atoms - (t - 1) * r))
          /\ Count(5) = Max(0, n_atoms - 4 * r)
          /\ 4 * r <= n_atoms =>
                /\ \A t \in 1..4 : Count(t) = r
                /\ Count(5) = n_atoms - 4 * r

C9_Witness ==
    /\ pc = "write"
    /\ n_atoms = 3
    /\ Count(1) = 1 /\ Count(2) = 1 /\ Count(3) = 1
    /\ Count(4) = 0 /\ Count(5) = 0

(***************************************************************************)
(* C10 as claimed: every per-species count, species 5 included, differs    *)
(* from N/5 by less than 1.                                                *)
(***************************************************************************)
C10_Original ==
    Assigned => \A t \in 1..5 : Abs(5 * Count(t) - n_atoms) < 5

(***************************************************************************)
(* C10 amended: the counts of species 1..4 differ from N/5 by less than 1; *)
(* the count of species 5, which takes the rounding remainder, differs     *)
(* from N/5 by less than 2.                                                *)
(***************************************************************************)
C10_NearTwentyPercent ==
    Assigned =>
       /\ \A t \in 1..4 : Abs(5 * Count(t) - n_atoms) < 5
       /\ Abs(5 * Count(5) - n_atoms) < 10

C10_Witness ==
    /\ pc = "write"
    /\ n_atoms = 7
    /\ Count(5) = 3
    /\ Count(4) = 1

====
